---- MODULE Spec2Model ----
(***************************************************************************)
(* State-machine model of the NoteMart client stores:                      *)
(*   - the cart store      (CartContext: cartReducer, CartProvider)        *)
(*   - the auth store      (AuthContext: authReducer, AuthProvider)        *)
(*   - the payment service (processPayment, validatePaymentRequest)        *)
(*   - the checkout flow   (CheckoutPage.handleCheckout)                   *)
(*   - the order history   (OrdersPage load/record effect)                 *)
(* Every dispatch is modelled together with the render and the effects     *)
(* React runs after it: the cartStats memo and the save effect.            *)
(* Prices are integers (cents); amounts with tax are in tenths of a cent.  *)
(* A nullable value is a sequence of length 0 (null) or 1.                 *)
(***************************************************************************)
EXTENDS Integers, Sequences, FiniteSets, TLC

VARIABLES
    cart,        \* CartState: [items, isLoading, error]
    cartStats,   \* the useMemo'd CartStats exposed with the cart state
    lsCart,      \* localStorage[LOCAL_STORAGE_KEYS.CART]
    auth,        \* AuthState: [user, isLoading, error]
    lsUser,      \* localStorage[LOCAL_STORAGE_KEYS.USER]
    authQueue,   \* login/register calls waiting on simulateApiDelay, oldest first
    idSeq,       \* number of ids handed out by generateId
    initPending, \* mount effects that have not run yet: subset of {"auth","cart"}
    checkout,    \* CheckoutPage component state
    payments,    \* processPayment calls waiting on their delay
    lsOrders,    \* localStorage['notemart_orders']
    faults,      \* storage calls that have thrown so far
    crashed,     \* an exception escaped an effect (the page is replaced by the error boundary)
    lastOp       \* the operation performed by the last step, and its outcome

vars == <<cart, cartStats, lsCart, auth, lsUser, authQueue, idSeq, initPending,
          checkout, payments, lsOrders, faults, crashed, lastOp>>

cartVars == <<cart, cartStats, lsCart>>
authVars == <<auth, lsUser, authQueue, idSeq>>
shopVars == <<checkout, payments, lsOrders>>

\* ---------------------------------------------------------------- bounds
MaxQty == 3
MaxAuthPending == 1
MaxSessions == 2
MaxPayments == 1
MaxFaults == 1
MaxOrders == 3

\* ---------------------------------------------------------------- program constants
MinPasswordLength == 6

\* ---------------------------------------------------------------- helpers
Null == <<>>
Some(x) == <<x>>
IsNull(o) == Len(o) = 0
Val(o) == o[1]

\* lastOp: the operation, its note id and quantity (cart), its email (auth)
\* and what came of it
Op(name, id, qty, tag) == [op |-> name, id |-> id, qty |-> qty, arg |-> <<>>, tag |-> tag]
AuthOp(name, email, tag) == [op |-> name, id |-> "", qty |-> 0, arg |-> email, tag |-> tag]

\* ---------------------------------------------------------------- catalogue
NoteIds == {"n1", "n2"}
PriceOf == [n \in NoteIds |-> IF n = "n1" THEN 1599 ELSE 500]

\* ================================================================ CART STORE

\* `x || 1` on a quantity: every falsy value (here 0, which also stands for a
\* missing field) becomes 1, anything else is kept.
OrOne(q) == IF q = 0 THEN 1 ELSE q

\* Array.prototype.findIndex on item.id; 0 stands for -1 (indexes are 1-based).
findIndex(items, id) ==
    IF \E i \in 1..Len(items) : items[i].id = id
    THEN CHOOSE i \in 1..Len(items) :
            /\ items[i].id = id
            /\ \A j \in 1..(i - 1) : items[j].id # id
    ELSE 0

\* Array.prototype.filter(item => item.id !== id)
RECURSIVE filterOut(_, _)
filterOut(items, id) ==
    IF items = <<>> THEN <<>>
    ELSE IF Head(items).id = id THEN filterOut(Tail(items), id)
         ELSE <<Head(items)>> \o filterOut(Tail(items), id)

initialCartState == [items |-> <<>>, isLoading |-> TRUE, error |-> Null]

reduceSetLoading(state, payload) == [state EXCEPT !.isLoading = payload]

reduceSetError(state, payload) ==
    [state EXCEPT !.error = payload, !.isLoading = FALSE]

\* mutant: SET_ITEMS leaves the loading flag as it was
reduceSetItems_keepLoading(state, payload) ==
    [state EXCEPT !.items = payload, !.error = Null]

reduceSetItems(state, payload) ==
    [state EXCEPT !.items = payload, !.isLoading = FALSE, !.error = Null]

\* mutant: the increment starts from the payload's quantity, not the line's
reduceAddItem_fromPayload(state, payload) ==
    LET existingItemIndex == findIndex(state.items, payload.id) IN
    IF existingItemIndex # 0
    THEN [state EXCEPT
            !.items = [state.items EXCEPT
                          ![existingItemIndex].quantity = OrOne(payload.quantity) + 1],
            !.error = Null]
    ELSE [state EXCEPT !.items = Append(state.items, payload), !.error = Null]

\* mutant: the existing line is not looked up, the payload is always appended
reduceAddItem_append(state, payload) ==
    [state EXCEPT !.items = Append(state.items, payload), !.error = Null]

reduceAddItem(state, payload) ==
    LET existingItemIndex == findIndex(state.items, payload.id) IN
    IF existingItemIndex # 0
    THEN [state EXCEPT
            !.items = [state.items EXCEPT ![existingItemIndex].quantity = OrOne(@) + 1],
            !.error = Null]
    ELSE [state EXCEPT !.items = Append(state.items, payload), !.error = Null]

reduceRemoveItem(state, payload) ==
    [state EXCEPT !.items = filterOut(state.items, payload), !.error = Null]

Max(a, b) == IF a >= b THEN a ELSE b

\* mutant: the quantity is set on every line
reduceUpdateQuantity_all(state, payload) ==
    [state EXCEPT
        !.items = [i \in 1..Len(state.items) |->
                     [state.items[i] EXCEPT !.quantity = Max(1, payload.quantity)]],
        !.error = Null]

reduceUpdateQuantity(state, payload) ==
    [state EXCEPT
        !.items = [i \in 1..Len(state.items) |->
                     IF state.items[i].id = payload.id
                     THEN [state.items[i] EXCEPT !.quantity = Max(1, payload.quantity)]
                     ELSE state.items[i]],
        !.error = Null]

\* mutant: CLEAR_CART clears the error only
reduceClearCart_keepItems(state) == [state EXCEPT !.error = Null]

reduceClearCart(state) == [state EXCEPT !.items = <<>>, !.error = Null]

reduceClearError(state) == [state EXCEPT !.error = Null]

cartReducer(state, action) ==
    CASE action.type = "SET_LOADING"     -> reduceSetLoading(state, action.payload)
      [] action.type = "SET_ERROR"       -> reduceSetError(state, action.payload)
      [] action.type = "SET_ITEMS"       -> reduceSetItems(state, action.payload)
      [] action.type = "ADD_ITEM"        -> reduceAddItem(state, action.payload)
      [] action.type = "REMOVE_ITEM"     -> reduceRemoveItem(state, action.payload)
      [] action.type = "UPDATE_QUANTITY" -> reduceUpdateQuantity(state, action.payload)
      [] action.type = "CLEAR_CART"      -> reduceClearCart(state)
      [] action.type = "CLEAR_ERROR"     -> reduceClearError(state)
      [] OTHER                           -> state

\* The reducer cases that return a new items array (a new reference): the
\* useMemo and useEffect dependency [state.items] changes exactly on these.
newItemsRef(type) ==
    type \in {"SET_ITEMS", "ADD_ITEM", "REMOVE_ITEM", "UPDATE_QUANTITY", "CLEAR_CART"}

RECURSIVE sumQuantity(_)
sumQuantity(items) ==
    IF items = <<>> THEN 0
    ELSE OrOne(Head(items).quantity) + sumQuantity(Tail(items))

RECURSIVE sumPrice(_)
sumPrice(items) ==
    IF items = <<>> THEN 0
    ELSE Head(items).price * OrOne(Head(items).quantity) + sumPrice(Tail(items))

computeCartStats(items) ==
    [totalItems  |-> sumQuantity(items),
     totalPrice  |-> sumPrice(items),
     uniqueItems |-> Len(items)]

\* mutant: the memo depends on the number of lines instead of the items array
memoCartStats_byLength(oldState, newState, type, oldStats) ==
    IF Len(oldState.items) # Len(newState.items)
    THEN computeCartStats(newState.items)
    ELSE oldStats

\* useMemo(() => ..., [state.items]) evaluated in the render after a dispatch
memoCartStats(oldState, newState, type, oldStats) ==
    IF newItemsRef(type) THEN computeCartStats(newState.items) ELSE oldStats

\* ---------------------------------------------------------------- cart persistence
\* A localStorage entry is absent (getItem returns null), a string that is
\* not JSON ("garbage"), JSON that is not an array ("nonarray"), or a JSON array.
AbsentEntry == [kind |-> "absent", items |-> <<>>]
GarbageEntry == [kind |-> "garbage", items |-> <<>>]
NonArrayEntry == [kind |-> "nonarray", items |-> <<>>]
ArrayEntry(items) == [kind |-> "array", items |-> items]

\* JSON.stringify(items): the id, price and quantity of every line, in order
stringifyCart(items) == ArrayEntry(items)

\* mutant: the stored quantity is taken as it is
parseCartData_rawQuantity(entry) ==
    IF entry.kind = "array" THEN entry.items ELSE <<>>

\* parseCartData: [] when JSON.parse throws or the value is no array, else every
\* element with quantity: item.quantity || 1
parseCartData(entry) ==
    IF entry.kind = "array"
    THEN [i \in 1..Len(entry.items) |->
            [entry.items[i] EXCEPT !.quantity = OrOne(@)]]
    ELSE <<>>

\* saveCartData: localStorage.setItem inside try/catch; a throwing setItem
\* leaves the entry as it was
saveCartData(items, writeOk, old) == IF writeOk THEN stringifyCart(items) ELSE old

\* mutant: the catch block of saveCartData reports the failure in the store
saveCatch_setsError(state, writeOk) ==
    IF writeOk THEN state ELSE [state EXCEPT !.error = Some("Failed to save cart data")]

\* the catch block of saveCartData only logs: the store is left as it is
saveCatch(state, writeOk) == state

\* mutant: the effect depends on the loading flag only
saveEffect_loadingDep(oldState, newState, type, writeOk, old) ==
    IF oldState.isLoading # newState.isLoading /\ ~newState.isLoading
    THEN saveCartData(newState.items, writeOk, old)
    ELSE old

\* mutant: the save effect writes on mount whatever the loading flag
saveOnMount_unguarded(state, old) == saveCartData(state.items, TRUE, old)

\* The save effect's first run, in the commit that mounts the provider: it
\* runs after the initializeCart effect has read the entry, on the state of
\* the first render
saveOnMount(state, old) ==
    IF ~state.isLoading THEN saveCartData(state.items, TRUE, old) ELSE old

\* The save effect, deps [state.items, state.isLoading]
saveEffect(oldState, newState, type, writeOk, old) ==
    IF (newItemsRef(type) \/ oldState.isLoading # newState.isLoading)
       /\ ~newState.isLoading
    THEN saveCartData(newState.items, writeOk, old)
    ELSE old


\* ================================================================ AUTH STORE

\* A string is a sequence of tokens: words, "@", "." and " " (white space).
\* String.prototype.includes on a word is membership of that token.
includes(str, word) == \E i \in 1..Len(str) : str[i] = word

lowerToken(tok) ==
    CASE tok = "ADMIN"  -> "admin"
      [] tok = "SELLER" -> "seller"
      [] OTHER          -> tok

toLowerCase(str) == [i \in 1..Len(str) |-> lowerToken(str[i])]

RECURSIVE trimStart(_)
trimStart(str) ==
    IF str # <<>> /\ Head(str) = " " THEN trimStart(Tail(str)) ELSE str

RECURSIVE trimEnd(_)
trimEnd(str) ==
    IF str # <<>> /\ str[Len(str)] = " "
    THEN trimEnd(SubSeq(str, 1, Len(str) - 1))
    ELSE str

trim(str) == trimEnd(trimStart(str))

\* email.split('@')[0]: the tokens before the first "@" (all of them without one)
RECURSIVE beforeAt(_)
beforeAt(str) ==
    IF str = <<>> \/ Head(str) = "@" THEN <<>>
    ELSE <<Head(str)>> \o beforeAt(Tail(str))

\* isValidEmail of @/lib/utils: local@domain.tld without white space
isValidEmail(email) ==
    /\ Cardinality({i \in 1..Len(email) : email[i] = "@"}) = 1
    /\ ~includes(email, " ")
    /\ LET at == CHOOSE i \in 1..Len(email) : email[i] = "@" IN
       /\ at > 1
       /\ \E d \in (at + 2)..(Len(email) - 1) : email[d] = "."
       /\ email[at + 1] # "."
       /\ email[Len(email)] # "."

\* passwords are sequences of characters
validatePassword(password) == Len(password) >= MinPasswordLength

initialAuthState == [user |-> Null, isLoading |-> TRUE, error |-> Null]

authSetLoading(state, payload) == [state EXCEPT !.isLoading = payload]

authSetUser(state, payload) ==
    [state EXCEPT !.user = payload, !.error = Null, !.isLoading = FALSE]

\* mutant: an error also drops the current user
authSetError_dropUser(state, payload) ==
    [user |-> Null, isLoading |-> FALSE, error |-> payload]

authSetError(state, payload) ==
    [state EXCEPT !.error = payload, !.isLoading = FALSE]

authClearError(state) == [state EXCEPT !.error = Null]

authLogout(state) == [user |-> Null, isLoading |-> FALSE, error |-> Null]

authReducer(state, action) ==
    CASE action.type = "SET_LOADING" -> authSetLoading(state, action.payload)
      [] action.type = "SET_USER"    -> authSetUser(state, action.payload)
      [] action.type = "SET_ERROR"   -> authSetError(state, action.payload)
      [] action.type = "CLEAR_ERROR" -> authClearError(state)
      [] action.type = "LOGOUT"      -> authLogout(state)
      [] OTHER                       -> state

\* ---------------------------------------------------------------- user persistence
\* The user entry is absent, a string that is not JSON of an object
\* ("garbage"), or a JSON object. A missing or empty field of the object is
\* 0 (id), <<>> (email, name) or "" (role).
AbsentUser == [kind |-> "absent", user |-> Null]
GarbageUser == [kind |-> "garbage", user |-> Null]
ObjectUser(u) == [kind |-> "object", user |-> Some(u)]

\* mutant: the role is not written
stringifyUser_noRole(user) == ObjectUser([user EXCEPT !.role = ""])

stringifyUser(user) == ObjectUser(user)

\* parseUserData: null when JSON.parse throws or id, email, name or role is falsy
parseUserData(entry) ==
    IF entry.kind # "object" THEN Null
    ELSE LET parsed == Val(entry.user) IN
         IF parsed.id = 0 \/ parsed.email = <<>> \/ parsed.name = <<>> \/ parsed.role = ""
         THEN Null
         ELSE Some(parsed)

\* mutant: seller is tested before admin
determineUserRole_sellerFirst(email) ==
    IF includes(email, "seller") THEN "seller"
    ELSE IF includes(email, "admin") THEN "admin"
    ELSE "buyer"

determineUserRole(email) ==
    IF includes(email, "admin") THEN "admin"
    ELSE IF includes(email, "seller") THEN "seller"
    ELSE "buyer"

\* generateId of @/lib/utils: a fresh identifier at every call
generateId(n) == n + 1

\* the mockUser of login (lines 276-284)
loginUser(id, email) ==
    [id    |-> id,
     email |-> trim(toLowerCase(email)),
     name  |-> beforeAt(email),
     role  |-> determineUserRole(email)]

\* mutant: register derives the role from the email as login does
registerUser_fromEmail(id, email, name, role) ==
    [id    |-> id,
     email |-> trim(toLowerCase(email)),
     name  |-> trim(name),
     role  |-> determineUserRole(email)]

\* the mockUser of register (lines 332-340); role is the parameter, which
\* defaults to USER_ROLES.BUYER when the caller passes none (line 310)
registerUser(id, email, name, role) ==
    [id    |-> id,
     email |-> trim(toLowerCase(email)),
     name  |-> trim(name),
     role  |-> IF IsNull(role) THEN "buyer" ELSE Val(role)]


\* ================================================================ INPUTS
SellerEmail == <<"seller", "@", "x", ".", "com">>
UpperAdminEmail == <<"ADMIN", "@", "x", ".", "com">>
NotAnEmail == <<"not-an-email">>
NoDomainEmail == <<"jo", "@">>
AdminSellerEmail == <<"admin", "-", "seller", "@", "x", ".", "com">>
Emails == {SellerEmail, UpperAdminEmail, AdminSellerEmail, NotAnEmail, NoDomainEmail}

ShortPassword == <<"p", "w">>
LongPassword == <<"p", "a", "s", "s", "w", "o", "r", "d", "1">>
SixCharPassword == <<"1", "2", "3", "4", "5", "6">>
Passwords == {ShortPassword, LongPassword, SixCharPassword}

Names == {<<"Jo">>, <<" ">>}
RoleArgs == {Null, Some("admin")}
\* register calls: valid and invalid emails with and without a role, a short
\* password, a blank name
RegisterInputs ==
    {<<e, LongPassword, <<"Jo">>, r>> :
        e \in {SellerEmail, UpperAdminEmail, NotAnEmail}, r \in RoleArgs}
    \cup {<<SellerEmail, ShortPassword, <<"Jo">>, Null>>}
    \cup {<<SellerEmail, LongPassword, n, Null>> : n \in Names}

\* The arrays saveCartData can have written: one line per note, in any order,
\* each with a quantity of at least 1, or (0) without one: CartItem.quantity
\* is optional.
RawQuantities == 0..MaxQty
RawItems == {[id |-> n, price |-> PriceOf[n], quantity |-> q] :
                n \in NoteIds, q \in RawQuantities}
RawArrays == {a \in UNION {[1..k -> RawItems] : k \in 0..Cardinality(NoteIds)} :
                \A i, j \in 1..Len(a) : i # j => a[i].id # a[j].id}
RawCarts == {AbsentEntry, GarbageEntry, NonArrayEntry} \cup {ArrayEntry(a) : a \in RawArrays}

\* a record an earlier visit has stored
StoredUser == [id |-> 100, email |-> SellerEmail, name |-> <<"seller">>, role |-> "seller"]
RawUsers == {AbsentUser, GarbageUser, ObjectUser(StoredUser),
             ObjectUser([StoredUser EXCEPT !.role = ""])}

\* ================================================================ MOUNT
Ready == initPending = {} /\ ~crashed

\* The outcomes of a localStorage call: it returns (TRUE) or, while the fault
\* budget lasts, it throws (FALSE).
Oks == IF faults < MaxFaults THEN BOOLEAN ELSE {TRUE}
Charge(ok) == faults' = IF ok THEN faults ELSE faults + 1

\* dispatch(action) with the render and the effects that follow it; `base` is
\* the storage entry the effects start from
CartDispatchOn(action, writeOk, base) ==
    LET next == cartReducer(cart, action) IN
    /\ cart' = saveCatch(next, writeOk)
    /\ cartStats' = memoCartStats(cart, next, action.type, cartStats)
    /\ lsCart' = saveEffect(cart, next, action.type, writeOk, base)

CartDispatch(action, writeOk) == CartDispatchOn(action, writeOk, lsCart)

\* CartProvider mount: the initializeCart effect, the save effect's first run
\* in the same commit, and the save effect after the dispatched action
InitializeCart ==
    /\ "cart" \in initPending
    /\ ~crashed
    /\ initPending' = initPending \ {"cart"}
    /\ \/ \E writeOk \in Oks :
            /\ lsCart.kind # "absent"
            /\ CartDispatchOn([type |-> "SET_ITEMS", payload |-> parseCartData(lsCart)],
                              writeOk, saveOnMount(cart, lsCart))
            /\ lastOp' = Op("initializeCart", "", 0, lsCart.kind)
            /\ Charge(writeOk)
            /\ UNCHANGED crashed
       \/ \E writeOk \in Oks :
            /\ lsCart.kind = "absent"
            /\ CartDispatchOn([type |-> "SET_LOADING", payload |-> FALSE],
                              writeOk, saveOnMount(cart, lsCart))
            /\ lastOp' = Op("initializeCart", "", 0, "absent")
            /\ Charge(writeOk)
            /\ UNCHANGED crashed
       \/ \E removeOk \in BOOLEAN :
            \* getItem throws: SET_ERROR, then removeItem in the catch block
            /\ faults < MaxFaults
            /\ faults' = faults + 1
            /\ IF removeOk
               THEN /\ CartDispatchOn([type |-> "SET_ERROR",
                                       payload |-> Some("Failed to load cart data")],
                                      TRUE, AbsentEntry)
                    /\ lastOp' = Op("initializeCart", "", 0, "readFailed")
                    /\ UNCHANGED crashed
               ELSE /\ crashed' = TRUE
                    /\ lastOp' = Op("initializeCart", "", 0, "removeFailed")
                    /\ UNCHANGED cartVars
    /\ UNCHANGED <<authVars, shopVars>>

\* AuthProvider mount effect (initializeAuth)
InitializeAuth ==
    /\ "auth" \in initPending
    /\ ~crashed
    /\ initPending' = initPending \ {"auth"}
    /\ LET user == IF lsUser.kind = "absent" THEN Null ELSE parseUserData(lsUser) IN
       \/ /\ ~IsNull(user)
          /\ auth' = authReducer(auth, [type |-> "SET_USER", payload |-> user])
          /\ lastOp' = Op("initializeAuth", "", 0, "restored")
          /\ UNCHANGED <<lsUser, faults>>
       \/ /\ IsNull(user)
          /\ auth' = authReducer(auth, [type |-> "SET_LOADING", payload |-> FALSE])
          /\ lastOp' = Op("initializeAuth", "", 0, lsUser.kind)
          /\ UNCHANGED <<lsUser, faults>>
       \/ \E removeOk \in BOOLEAN :
            \* getItem throws: removeItem in the catch block, which may throw
            \* out of initializeAuth before SET_LOADING is dispatched
            /\ faults < MaxFaults
            /\ faults' = faults + 1
            /\ IF removeOk
               THEN /\ lsUser' = AbsentUser
                    /\ auth' = authReducer(auth, [type |-> "SET_LOADING", payload |-> FALSE])
                    /\ lastOp' = Op("initializeAuth", "", 0, "readFailed")
               ELSE /\ lastOp' = Op("initializeAuth", "", 0, "removeFailed")
                    /\ UNCHANGED <<auth, lsUser>>
    /\ UNCHANGED <<cartVars, authQueue, idSeq, shopVars, crashed>>

\* ================================================================ CART OPERATIONS
\* the cartItem addItem builds: the item with quantity 1
NewItem(id) == [id |-> id, price |-> PriceOf[id], quantity |-> 1]

AddItem(id) ==
    LET idx == findIndex(cart.items, id) IN
    /\ Ready
    /\ idx # 0 => OrOne(cart.items[idx].quantity) < MaxQty
    /\ \E writeOk \in Oks :
         /\ CartDispatch([type |-> "ADD_ITEM", payload |-> NewItem(id)], writeOk)
         /\ Charge(writeOk)
    /\ lastOp' = Op("addItem", id, 1, IF idx # 0 THEN "existing" ELSE "new")
    /\ UNCHANGED <<authVars, shopVars, initPending, crashed>>

\* NoteCard.handleAddToCart: the only caller of addItem; note cards are shown
\* on the notes pages, never on the checkout page
HandleAddToCart(id) ==
    /\ ~checkout.mounted
    /\ ~IsNull(auth.user)
    /\ findIndex(cart.items, id) = 0
    /\ AddItem(id)

RemoveItem(id) ==
    /\ Ready
    /\ \E writeOk \in Oks :
         /\ CartDispatch([type |-> "REMOVE_ITEM", payload |-> id], writeOk)
         /\ Charge(writeOk)
    /\ lastOp' = Op("removeItem", id, 0,
                    IF findIndex(cart.items, id) # 0 THEN "existing" ELSE "absent")
    /\ UNCHANGED <<authVars, shopVars, initPending, crashed>>

UpdateItemQuantity(id, quantity) ==
    /\ Ready
    /\ \E writeOk \in Oks :
         /\ IF quantity <= 0
            THEN CartDispatch([type |-> "REMOVE_ITEM", payload |-> id], writeOk)
            ELSE CartDispatch([type |-> "UPDATE_QUANTITY",
                               payload |-> [id |-> id, quantity |-> quantity]], writeOk)
         /\ Charge(writeOk)
    /\ lastOp' = Op("updateItemQuantity", id, quantity,
                    IF findIndex(cart.items, id) # 0 THEN "existing" ELSE "absent")
    /\ UNCHANGED <<authVars, shopVars, initPending, crashed>>

ClearCart ==
    /\ Ready
    /\ \E writeOk \in Oks :
         /\ CartDispatch([type |-> "CLEAR_CART"], writeOk)
         /\ Charge(writeOk)
    /\ lastOp' = Op("clearCart", "", 0, IF cart.items = <<>> THEN "empty" ELSE "nonEmpty")
    /\ UNCHANGED <<authVars, shopVars, initPending, crashed>>

\* clearError: CLEAR_ERROR keeps the items array, so no effect runs
CartClearError ==
    /\ Ready
    /\ CartDispatch([type |-> "CLEAR_ERROR"], TRUE)
    /\ lastOp' = Op("cartClearError", "", 0, "")
    /\ UNCHANGED <<authVars, shopVars, initPending, crashed, faults>>

\* ================================================================ AUTH OPERATIONS
AuthError(kind) == Some(kind)

\* the state after the two dispatches that open login and register
authStarted(state) ==
    authReducer(authReducer(state, [type |-> "SET_LOADING", payload |-> TRUE]),
                [type |-> "CLEAR_ERROR"])

authFailed(state, kind) ==
    authReducer(authStarted(state), [type |-> "SET_ERROR", payload |-> AuthError(kind)])

\* mutant: the email format is checked after the delay
loginValidation_noEmailCheck(email, password) ==
    IF ~validatePassword(password) THEN "WEAK_PASSWORD" ELSE "ok"

\* the checks of login before the delay (lines 264-270)
loginValidation(email, password) ==
    IF ~isValidEmail(email) THEN "INVALID_EMAIL"
    ELSE IF ~validatePassword(password) THEN "WEAK_PASSWORD"
    ELSE "ok"

\* the checks of register before the delay (lines 317-327)
registerValidation(email, password, name) ==
    IF ~isValidEmail(email) THEN "INVALID_EMAIL"
    ELSE IF ~validatePassword(password) THEN "WEAK_PASSWORD"
    ELSE IF trim(name) = <<>> THEN "INVALID_CREDENTIALS"
    ELSE "ok"

CanQueue ==
    /\ Len(authQueue) < MaxAuthPending
    /\ idSeq + Len(authQueue) < MaxSessions

\* login up to `await simulateApiDelay()`, or up to the rethrow of a failed check
Login(email, password) ==
    LET verdict == loginValidation(email, password) IN
    /\ Ready
    /\ \/ /\ verdict # "ok"
          /\ auth' = authFailed(auth, verdict)
          /\ UNCHANGED authQueue
       \/ /\ verdict = "ok"
          /\ CanQueue
          /\ auth' = authStarted(auth)
          /\ authQueue' = Append(authQueue,
                [op |-> "login", email |-> email, name |-> <<>>, role |-> Null])
    /\ lastOp' = AuthOp("login", email, verdict)
    /\ UNCHANGED <<cartVars, lsUser, idSeq, shopVars, initPending, crashed, faults>>

\* register up to `await simulateApiDelay()`, or up to the rethrow of a failed check
Register(email, password, name, role) ==
    LET verdict == registerValidation(email, password, name) IN
    /\ Ready
    /\ \/ /\ verdict # "ok"
          /\ auth' = authFailed(auth, verdict)
          /\ UNCHANGED authQueue
       \/ /\ verdict = "ok"
          /\ CanQueue
          /\ auth' = authStarted(auth)
          /\ authQueue' = Append(authQueue,
                [op |-> "register", email |-> email, name |-> name, role |-> role])
    /\ lastOp' = AuthOp("register", email, verdict)
    /\ UNCHANGED <<cartVars, lsUser, idSeq, shopVars, initPending, crashed, faults>>

completionOf(op) == IF op = "login" THEN "loginComplete" ELSE "registerComplete"

\* the rest of login or register once its delay has elapsed; the delays are
\* equal, so the calls resume in the order they were made
AuthComplete ==
    /\ ~crashed
    /\ authQueue # <<>>
    /\ LET req == Head(authQueue)
           id == generateId(idSeq)
           mockUser == IF req.op = "login"
                       THEN loginUser(id, req.email)
                       ELSE registerUser(id, req.email, req.name, req.role)
       IN
       /\ idSeq' = id
       /\ authQueue' = Tail(authQueue)
       /\ \E writeOk \in Oks :
            /\ Charge(writeOk)
            /\ \/ /\ writeOk
                  /\ lsUser' = stringifyUser(mockUser)
                  /\ auth' = authReducer(auth, [type |-> "SET_USER", payload |-> Some(mockUser)])
                  /\ lastOp' = AuthOp(completionOf(req.op), req.email, "completed")
               \/ /\ ~writeOk
                  /\ lsUser' = lsUser
                  /\ auth' = authReducer(auth,
                                 [type |-> "SET_ERROR", payload |-> AuthError("STORAGE_ERROR")])
                  /\ lastOp' = AuthOp(completionOf(req.op), req.email, "STORAGE_ERROR")
    /\ UNCHANGED <<cartVars, shopVars, initPending, crashed>>

\* mutant: a failing removeItem is not caught, LOGOUT is not dispatched
logoutState_uncaught(state, removeOk) ==
    IF removeOk THEN authReducer(state, [type |-> "LOGOUT"]) ELSE state

\* logout dispatches LOGOUT in the try block and in the catch block
logoutState(state, removeOk) == authReducer(state, [type |-> "LOGOUT"])

\* mutant: logout empties the whole storage (localStorage.clear())
Logout_clearsStorage ==
    /\ Ready
    /\ lsUser' = AbsentUser
    /\ lsCart' = AbsentEntry
    /\ lsOrders' = AbsentEntry
    /\ auth' = logoutState(auth, TRUE)
    /\ lastOp' = Op("logout", "", 0, "removed")
    /\ UNCHANGED <<cart, cartStats, authQueue, idSeq, checkout, payments,
                   initPending, crashed, faults>>

Logout ==
    /\ Ready
    /\ \E removeOk \in Oks :
         /\ Charge(removeOk)
         /\ lsUser' = IF removeOk THEN AbsentUser ELSE lsUser
         /\ auth' = logoutState(auth, removeOk)
         /\ lastOp' = Op("logout", "", 0, IF removeOk THEN "removed" ELSE "removeFailed")
    /\ UNCHANGED <<cartVars, authQueue, idSeq, shopVars, initPending, crashed>>

ClearError ==
    /\ Ready
    /\ auth' = authReducer(auth, [type |-> "CLEAR_ERROR"])
    /\ lastOp' = Op("clearError", "", 0, "")
    /\ UNCHANGED <<cartVars, lsUser, authQueue, idSeq, shopVars, initPending, crashed, faults>>

\* refreshUser: only lastLoginAt changes, which the user record here does not
\* carry; a throwing saveUserData rejects the call before the dispatch
RefreshUser ==
    /\ Ready
    /\ \/ /\ IsNull(auth.user)
          /\ lastOp' = Op("refreshUser", "", 0, "anonymous")
          /\ UNCHANGED <<auth, lsUser, faults>>
       \/ /\ ~IsNull(auth.user)
          /\ \E writeOk \in Oks :
               /\ Charge(writeOk)
               /\ \/ /\ writeOk
                     /\ lsUser' = stringifyUser(Val(auth.user))
                     /\ auth' = authReducer(auth, [type |-> "SET_USER", payload |-> auth.user])
                     /\ lastOp' = Op("refreshUser", "", 0, "saved")
                  \/ /\ ~writeOk
                     /\ lastOp' = Op("refreshUser", "", 0, "STORAGE_ERROR")
                     /\ UNCHANGED <<auth, lsUser>>
    /\ UNCHANGED <<cartVars, authQueue, idSeq, shopVars, initPending, crashed>>


\* ================================================================ PAYMENT SERVICE
\* validatePaymentRequest: the list of error messages, in the order of the checks
validatePaymentRequest(request) ==
    (IF request.amount <= 0 THEN <<"Invalid payment amount">> ELSE <<>>)
    \o (IF request.currency = "" THEN <<"Currency is required">> ELSE <<>>)
    \o (IF request.method = "" THEN <<"Payment method is required">> ELSE <<>>)
    \o (IF Len(request.items) = 0 THEN <<"No items to purchase">> ELSE <<>>)
    \o (IF request.customerInfo.email = <<>> THEN <<"Customer email is required">> ELSE <<>>)
    \o (IF request.customerInfo.name = <<>> THEN <<"Customer name is required">> ELSE <<>>)

failures == <<"Insufficient funds", "Payment method declined",
              "Network timeout", "Invalid payment details">>

\* mutant: a failed payment still carries a transaction identifier
paymentResponse_alwaysTransaction(request, isSuccess, pick) ==
    [success |-> isSuccess, transactionId |-> Some("txn"),
     status |-> IF isSuccess THEN "completed" ELSE "failed",
     error |-> IF isSuccess THEN Null ELSE Some(failures[pick])]

\* the PaymentResponse processPayment returns after the delay
paymentResponse(request, isSuccess, pick) ==
    IF isSuccess
    THEN [success |-> TRUE, transactionId |-> Some("txn"), status |-> "completed",
          error |-> Null]
    ELSE [success |-> FALSE, transactionId |-> Null, status |-> "failed",
          error |-> Some(failures[pick])]

\* ================================================================ CHECKOUT FLOW
unmountedCheckout == [mounted |-> FALSE, name |-> <<>>, email |-> <<>>, isProcessing |-> FALSE]

\* CheckoutPage mounts: customerInfo starts from the current user, if any
OpenCheckout ==
    /\ Ready
    /\ ~checkout.mounted
    /\ checkout' = [mounted |-> TRUE,
                    name |-> IF IsNull(auth.user) THEN <<>> ELSE Val(auth.user).name,
                    email |-> IF IsNull(auth.user) THEN <<>> ELSE Val(auth.user).email,
                    isProcessing |-> FALSE]
    /\ lastOp' = Op("openCheckout", "", 0, "")
    /\ UNCHANGED <<cartVars, authVars, payments, lsOrders, initPending, crashed, faults>>

\* the user navigates away: the component and its state are dropped, the
\* pending processPayment promise is not
LeaveCheckout ==
    /\ Ready
    /\ checkout.mounted
    /\ checkout' = unmountedCheckout
    /\ payments' = [i \in 1..Len(payments) |-> [payments[i] EXCEPT !.mounted = FALSE]]
    /\ lastOp' = Op("leaveCheckout", "", 0, "")
    /\ UNCHANGED <<cartVars, authVars, lsOrders, initPending, crashed, faults>>

\* the two inputs of the customer information card
SetCustomerInfo(name, email) ==
    /\ Ready
    /\ checkout.mounted
    /\ checkout' = [checkout EXCEPT !.name = name, !.email = email]
    /\ lastOp' = Op("setCustomerInfo", "", 0, "")
    /\ UNCHANGED <<cartVars, authVars, payments, lsOrders, initPending, crashed, faults>>

\* orderSummary.total = totalPrice * 1.1, in tenths of a cent
orderTotal(totalPrice) == totalPrice * 11

\* the paymentRequest handleCheckout builds (lines 82-93)
paymentRequest(items, totalPrice, customerInfo) ==
    [amount       |-> orderTotal(totalPrice),
     currency     |-> "USD",
     method       |-> "stripe",
     items        |-> [i \in 1..Len(items) |->
                         [id |-> items[i].id, price |-> items[i].price,
                          quantity |-> OrOne(items[i].quantity)]],
     customerInfo |-> customerInfo]

OrdersCount == IF lsOrders.kind = "array" THEN Len(lsOrders.items) ELSE 0

\* handleCheckout up to `await processPayment(paymentRequest)`
HandleCheckout ==
    LET request == paymentRequest(cart.items, cartStats.totalPrice,
                                  [name |-> checkout.name, email |-> checkout.email])
        errors == validatePaymentRequest(request)
    IN
    /\ Ready
    /\ checkout.mounted
    /\ ~checkout.isProcessing
    /\ \/ /\ Len(cart.items) = 0
          /\ lastOp' = Op("handleCheckout", "", 0, "emptyCart")
          /\ UNCHANGED <<checkout, payments>>
       \/ /\ Len(cart.items) # 0
          /\ errors # <<>>
          /\ lastOp' = Op("handleCheckout", "", 0, "validationError")
          /\ UNCHANGED <<checkout, payments>>
       \/ /\ Len(cart.items) # 0
          /\ errors = <<>>
          /\ OrdersCount + Len(payments) < MaxPayments
          /\ checkout' = [checkout EXCEPT !.isProcessing = TRUE]
          /\ payments' = Append(payments,
                [request |-> request, caller |-> "checkout", mounted |-> TRUE])
          /\ lastOp' = Op("handleCheckout", "", 0, "submitted")
    /\ UNCHANGED <<cartVars, authVars, lsOrders, initPending, crashed, faults>>

\* ================================================================ ORDER HISTORY
newOrder(orderData) ==
    [transactionId |-> orderData.transactionId,
     items         |-> orderData.items,
     total         |-> orderData.total,
     status        |-> "completed"]

\* The OrdersPage effect with orderData in location.state: JSON.parse of the
\* saved entry, the spread of the parsed value and setItem all run outside
\* any try block, so each of them can throw out of the effect.
recordThrows(entry, storageOk) ==
    ~storageOk \/ entry.kind \in {"garbage", "nonarray"}

\* mutant: the new order is appended after the existing ones
recordOrder_append(entry, orderData) ==
    ArrayEntry((IF entry.kind = "array" THEN entry.items ELSE <<>>) \o <<newOrder(orderData)>>)

recordOrder(entry, orderData) ==
    ArrayEntry(<<newOrder(orderData)>> \o (IF entry.kind = "array" THEN entry.items ELSE <<>>))

RemoveAt(seq, i) == SubSeq(seq, 1, i - 1) \o SubSeq(seq, i + 1, Len(seq))

\* The rest of handleCheckout once processPayment has resolved. On success:
\* clearCart(), navigate to the orders page with orderData, and the orders
\* page's effect, which records the order.
PaymentResolve(i) ==
    /\ ~crashed
    /\ i \in 1..Len(payments)
    /\ payments[i].caller = "checkout"
    /\ payments' = RemoveAt(payments, i)
    /\ \E isSuccess \in BOOLEAN, storageOk \in Oks, pick \in 1..Len(failures) :
         LET p == payments[i]
             result == paymentResponse(p.request, isSuccess, pick)
             orderData == [transactionId |-> Val(result.transactionId),
                           items |-> p.request.items,
                           total |-> p.request.amount]
         IN
         \/ /\ result.success
            /\ CartDispatch([type |-> "CLEAR_CART"], TRUE)
            /\ checkout' = unmountedCheckout
            /\ Charge(storageOk)
            /\ IF recordThrows(lsOrders, storageOk)
               THEN /\ crashed' = TRUE
                    /\ lastOp' = Op("paymentResolved", "", 0, "successRecordThrew")
                    /\ UNCHANGED lsOrders
               ELSE /\ lsOrders' = recordOrder(lsOrders, orderData)
                    /\ lastOp' = Op("paymentResolved", "", 0, "successRecorded")
                    /\ UNCHANGED crashed
         \/ /\ ~result.success
            /\ checkout' = IF p.mounted THEN [checkout EXCEPT !.isProcessing = FALSE]
                           ELSE checkout
            /\ storageOk
            /\ lastOp' = Op("paymentResolved", "", 0, "failed")
            /\ UNCHANGED <<cartVars, lsOrders, crashed, faults>>
    /\ UNCHANGED <<authVars, initPending>>

\* the orders page opened without orderData: the effect only loads the list
OpenOrders ==
    /\ Ready
    /\ \E storageOk \in Oks :
         /\ Charge(storageOk)
         /\ IF recordThrows(lsOrders, storageOk)
            THEN /\ crashed' = TRUE
                 /\ lastOp' = Op("openOrders", "", 0, "threw")
            ELSE /\ lastOp' = Op("openOrders", "", 0, "loaded")
                 /\ UNCHANGED crashed
    /\ checkout' = unmountedCheckout
    /\ payments' = [i \in 1..Len(payments) |-> [payments[i] EXCEPT !.mounted = FALSE]]
    /\ UNCHANGED <<cartVars, authVars, lsOrders, initPending>>

\* The orders page opened with orderData in location.state, whatever that
\* orderData carries (a status of its own included): the effect records it.
RecordOrder(orderData) ==
    /\ Ready
    /\ OrdersCount < MaxOrders
    /\ \E storageOk \in Oks :
         /\ Charge(storageOk)
         /\ IF recordThrows(lsOrders, storageOk)
            THEN /\ crashed' = TRUE
                 /\ lastOp' = [Op("recordOrder", "", 0, "threw")
                                  EXCEPT !.arg = <<orderData.status>>]
                 /\ UNCHANGED lsOrders
            ELSE /\ lsOrders' = recordOrder(lsOrders, orderData)
                 /\ lastOp' = [Op("recordOrder", "", 0, "recorded")
                                  EXCEPT !.arg = <<orderData.status>>]
                 /\ UNCHANGED crashed
    /\ checkout' = unmountedCheckout
    /\ payments' = [i \in 1..Len(payments) |-> [payments[i] EXCEPT !.mounted = FALSE]]
    /\ UNCHANGED <<cartVars, authVars, initPending>>

\* processPayment called by any other caller, with any request: the function
\* awaits its delay first thing, whatever the request holds
ProcessPayment(request) ==
    /\ Ready
    /\ Len(payments) < MaxPayments
    /\ payments' = Append(payments,
          [request |-> request, caller |-> "direct", mounted |-> FALSE])
    /\ lastOp' = Op("processPayment", "", 0,
                    IF Len(request.items) = 0 THEN "emptyItems" ELSE "items")
    /\ UNCHANGED <<cartVars, authVars, checkout, lsOrders, initPending, crashed, faults>>

\* validatePaymentRequest called with any request; it reads no state and
\* changes none
ValidateRequest(request) ==
    /\ Ready
    /\ lastOp' = [Op("validatePaymentRequest", "", 0,
                      IF validatePaymentRequest(request) = <<>>
                      THEN "accepted" ELSE "rejected")
                  EXCEPT !.arg = <<request>>]
    /\ UNCHANGED <<cartVars, authVars, shopVars, initPending, crashed, faults>>

\* processPayment returning to that caller
ProcessPaymentReturn(i) ==
    /\ ~crashed
    /\ i \in 1..Len(payments)
    /\ payments[i].caller = "direct"
    /\ payments' = RemoveAt(payments, i)
    /\ \E isSuccess \in BOOLEAN, pick \in 1..Len(failures) :
         LET result == paymentResponse(payments[i].request, isSuccess, pick)
         IN lastOp' = [Op("processPaymentReturn", "", 0, result.status)
                          EXCEPT !.arg = <<result>>]
    /\ UNCHANGED <<cartVars, authVars, checkout, lsOrders, initPending, crashed, faults>>

\* ================================================================ PAGE LOAD
\* The page is loaded anew: every provider starts from its initial state, the
\* pending timers are gone, localStorage stays.
Reload ==
    /\ cart' = initialCartState
    /\ cartStats' = computeCartStats(<<>>)
    /\ auth' = initialAuthState
    /\ authQueue' = <<>>
    /\ checkout' = unmountedCheckout
    /\ payments' = <<>>
    /\ initPending' = {"auth", "cart"}
    /\ crashed' = FALSE
    /\ lastOp' = Op("reload", "", 0, "")
    /\ UNCHANGED <<lsCart, lsUser, lsOrders, idSeq, faults>>


\* ================================================================ SPECIFICATIONS
InitCommon ==
    /\ cart = initialCartState
    /\ cartStats = computeCartStats(<<>>)
    /\ auth = initialAuthState
    /\ authQueue = <<>>
    /\ idSeq = 0
    /\ initPending = {"auth", "cart"}
    /\ checkout = unmountedCheckout
    /\ payments = <<>>
    /\ faults = 0
    /\ crashed = FALSE
    /\ lastOp = Op("mount", "", 0, "")

\* The whole shop, started in a browser whose storage holds no cart and no
\* user; the orders entry is absent or unreadable.
Init ==
    /\ InitCommon
    /\ lsCart = AbsentEntry
    /\ lsUser = AbsentUser
    /\ lsOrders \in {AbsentEntry, GarbageEntry}

Next ==
    \/ InitializeCart
    \/ InitializeAuth
    \/ Login(SellerEmail, LongPassword)
    \/ AuthComplete
    \/ Logout
    \/ \E id \in NoteIds : HandleAddToCart(id)
    \/ ClearCart
    \/ OpenCheckout
    \/ LeaveCheckout
    \/ SetCustomerInfo(<<>>, <<>>)
    \/ SetCustomerInfo(<<"Jo">>, SellerEmail)
    \/ HandleCheckout
    \/ \E i \in 1..MaxPayments : PaymentResolve(i)
    \/ OpenOrders

Spec == Init /\ [][Next]_vars

\* The cart store alone, over every content of its storage entry.
InitCart ==
    /\ InitCommon
    /\ lsCart \in RawCarts
    /\ lsUser = AbsentUser
    /\ lsOrders = AbsentEntry

NextCart ==
    \/ InitializeCart
    \/ InitializeAuth
    \/ \E id \in NoteIds : AddItem(id)
    \/ \E id \in NoteIds : RemoveItem(id)
    \/ \E id \in NoteIds, q \in {-1, 0, 1, MaxQty} : UpdateItemQuantity(id, q)
    \/ ClearCart
    \/ CartClearError

SpecCart == InitCart /\ [][NextCart]_vars

\* The auth store alone, over every content of its storage entry.
InitAuth ==
    /\ InitCommon
    /\ lsCart = AbsentEntry
    /\ lsUser \in RawUsers
    /\ lsOrders = AbsentEntry

NextAuth ==
    \/ InitializeCart
    \/ InitializeAuth
    \/ \E e \in Emails, p \in Passwords : Login(e, p)
    \/ \E args \in RegisterInputs : Register(args[1], args[2], args[3], args[4])
    \/ AuthComplete
    \/ Logout
    \/ ClearError
    \/ RefreshUser
    \/ Reload

SpecAuth == InitAuth /\ [][NextAuth]_vars

\* The payment service alone, called with any request.
Requests ==
    {[amount |-> a, currency |-> "USD", method |-> "stripe", items |-> its,
      customerInfo |-> c] :
        a \in {0, orderTotal(PriceOf["n1"])},
        its \in {<<>>, <<NewItem("n1")>>, <<NewItem("n1"), NewItem("n2")>>},
        c \in {[name |-> <<>>, email |-> <<>>],
               [name |-> <<"Jo">>, email |-> SellerEmail]}}

NextPayment ==
    \/ InitializeCart
    \/ InitializeAuth
    \/ \E r \in Requests : ProcessPayment(r)
    \/ \E r \in Requests : ValidateRequest(r)
    \/ \E i \in 1..MaxPayments : ProcessPaymentReturn(i)
    \/ Reload

SpecPayment == Init /\ [][NextPayment]_vars

\* The order history alone: the orders page visited with and without
\* orderData, over every content of its storage entry.
OrderDatas ==
    {[transactionId |-> "txn", items |-> <<NewItem(n)>>,
      total |-> orderTotal(PriceOf[n]), status |-> st] :
        n \in NoteIds, st \in {"", "failed"}}

InitOrders ==
    /\ InitCommon
    /\ lsCart = AbsentEntry
    /\ lsUser = AbsentUser
    /\ lsOrders \in {AbsentEntry, GarbageEntry, NonArrayEntry}

NextOrders ==
    \/ InitializeCart
    \/ InitializeAuth
    \/ \E o \in OrderDatas : RecordOrder(o)
    \/ OpenOrders
    \/ Reload

SpecOrders == InitOrders /\ [][NextOrders]_vars

\* ================================================================ CART CLAIMS
\* the lines of `items` that carry the identifier `id`
LinesOf(items, id) == {i \in 1..Len(items) : items[i].id = id}

\* C1: in every reachable cart state, also right after the cart is initialized
\* from its persisted entry, no two lines of the cart carry the same item
\* identifier.
C1_OneLinePerId ==
    \A i, j \in 1..Len(cart.items) :
        cart.items[i].id = cart.items[j].id => i = j

\* C1 witness: a note whose line is already in a two-line cart was added again
C1_Witness ==
    /\ lastOp.op = "addItem"
    /\ lastOp.tag = "existing"
    /\ Len(cart.items) = 2

\* C2: adding an item whose identifier is already in the cart raises that
\* line's quantity by exactly 1 and leaves the number of lines and every other
\* line as they were; adding an item whose identifier is absent appends one
\* line with quantity 1 after the lines that were there.
C2_AddItemStep ==
    [][lastOp'.op = "addItem" =>
         LET id == lastOp'.id IN
         IF LinesOf(cart.items, id) # {}
         THEN /\ Len(cart'.items) = Len(cart.items)
              /\ \A i \in 1..Len(cart.items) :
                    IF cart.items[i].id = id
                    THEN cart'.items[i] =
                            [cart.items[i] EXCEPT !.quantity = cart.items[i].quantity + 1]
                    ELSE cart'.items[i] = cart.items[i]
         ELSE cart'.items =
                 cart.items \o <<[id |-> id, price |-> PriceOf[id], quantity |-> 1]>>
      ]_vars

\* C2 witness: a line that stood at quantity 2 was added once more
C2_Witness ==
    /\ lastOp.op = "addItem"
    /\ lastOp.tag = "existing"
    /\ \E i \in 1..Len(cart.items) :
          cart.items[i].id = lastOp.id /\ cart.items[i].quantity = 3

RECURSIVE QuantityTotal(_)
QuantityTotal(items) ==
    IF items = <<>> THEN 0 ELSE Head(items).quantity + QuantityTotal(Tail(items))

RECURSIVE PriceTotal(_)
PriceTotal(items) ==
    IF items = <<>> THEN 0
    ELSE Head(items).price * Head(items).quantity + PriceTotal(Tail(items))

\* C3: in every state a reader can observe, totalItems is the sum of the
\* quantities of the current lines and totalPrice the sum of price times
\* quantity over them; the totals are never those of an earlier item list.
C3_TotalsOfCurrentItems ==
    /\ cartStats.totalItems = QuantityTotal(cart.items)
    /\ cartStats.totalPrice = PriceTotal(cart.items)

\* C3 witness: a quantity was changed in a two-line cart, the number of lines
\* staying the same
C3_Witness ==
    /\ lastOp.op = "updateItemQuantity"
    /\ lastOp.tag = "existing"
    /\ lastOp.qty = MaxQty
    /\ Len(cart.items) = 2
    /\ cartStats.totalItems > 2

\* ================================================================ CHECKOUT CLAIMS
\* C4: a payment is started from the checkout page only while a user is
\* signed in: the step in which handleCheckout submits the payment request
\* starts from a state with a current user.
C4_PaymentOnlyWhenAuthenticated ==
    [][(lastOp'.op = "handleCheckout" /\ lastOp'.tag = "submitted"
        /\ Len(payments') = Len(payments) + 1)
       => ~IsNull(auth.user)]_vars

\* C5: the step that ends a checkout payment clears the cart and adds one
\* order to the persisted orders exactly when the payment succeeded; after a
\* failed payment, and after a checkout stopped by a validation error, the
\* cart items and the persisted orders are what they were.
C5_ClearAndRecordIffSuccess ==
    [][/\ (lastOp'.op = "paymentResolved" /\ Len(payments') = Len(payments) - 1)
          => IF lastOp'.tag = "failed"
             THEN cart'.items = cart.items /\ lsOrders' = lsOrders
             ELSE /\ cart'.items = <<>>
                  /\ lsOrders'.kind = "array"
                  /\ Len(lsOrders'.items) =
                        1 + (IF lsOrders.kind = "array" THEN Len(lsOrders.items) ELSE 0)
       /\ (lastOp'.op = "handleCheckout" /\ lastOp'.tag # "submitted")
          => cart'.items = cart.items /\ lsOrders' = lsOrders
      ]_vars

\* C6: processPayment called with an empty item list never enters its delay:
\* no pending payment carries a request without items.
C6_EmptyItemsNeverPending ==
    \A i \in 1..Len(payments) : Len(payments[i].request.items) # 0

\* ================================================================ AUTH CLAIMS
\* the step in which a register call without an explicit role, made with
\* seller@x.com, completes
RegisterDefaultRoleStep ==
    /\ authQueue # <<>>
    /\ Head(authQueue).op = "register"
    /\ IsNull(Head(authQueue).role)
    /\ Head(authQueue).email = SellerEmail
    /\ lastOp'.op = "registerComplete"
    /\ lastOp'.tag = "completed"

\* C7, as stated: register("seller@x.com", "password1", "Jo") without an
\* explicit role produces a user whose role is derived from the email: "seller".
C7_RegisterRoleFromEmail ==
    [][RegisterDefaultRoleStep => Val(auth'.user).role = "seller"]_vars

\* C7, amended: register without an explicit role produces a user whose role is
\* "buyer" whatever the email holds (seller@x.com gives "buyer"), and with an
\* explicit role a user with that role; the user is the current user and the
\* persisted one.
C7_RegisterRoleDefaultsToBuyer ==
    [][(/\ authQueue # <<>>
        /\ Head(authQueue).op = "register"
        /\ lastOp'.op = "registerComplete"
        /\ lastOp'.tag = "completed")
       => /\ ~IsNull(auth'.user)
          /\ Val(auth'.user).role =
                (IF IsNull(Head(authQueue).role) THEN "buyer"
                 ELSE Val(Head(authQueue).role))
          /\ lsUser' = ObjectUser(Val(auth'.user))
      ]_vars

\* C7 witness: the register call of seller@x.com without a role has completed
C7_Witness ==
    /\ lastOp.op = "registerComplete"
    /\ lastOp.tag = "completed"
    /\ lastOp.arg = SellerEmail
    /\ ~IsNull(auth.user)
    /\ Val(auth.user).role = "buyer"
    /\ Val(auth.user).name = <<"Jo">>

\* C8: login with an email that fails the format validation rejects with the
\* email-format error kind before the delay is started: the store holds that
\* error with isLoading false, no call is pending, and the current user and
\* the persisted user record are what they were.
C8_InvalidEmailLogin ==
    [][(lastOp'.op = "login" /\ ~isValidEmail(lastOp'.arg))
       => /\ auth'.error = Some("INVALID_EMAIL")
          /\ auth'.isLoading = FALSE
          /\ auth'.user = auth.user
          /\ lsUser' = lsUser
          /\ authQueue' = authQueue
      ]_vars

\* C8 witness: the rejected login was made while a user was signed in
C8_Witness ==
    /\ lastOp.op = "login"
    /\ lastOp.arg = NotAnEmail
    /\ lastOp.tag = "INVALID_EMAIL"
    /\ ~IsNull(auth.user)
    /\ lsUser.kind = "object"

\* C9, as stated: after logout the user is null and the persisted user record
\* is gone, also when removing it failed, so that initializing again gives an
\* anonymous session.
C9_LogoutClearsBoth ==
    lastOp.op = "logout" =>
        /\ IsNull(auth.user)
        /\ IsNull(parseUserData(lsUser))

\* C9, amended: logout always ends the in-memory session (user null, not
\* loading, no error), also when removing the persisted record throws; the
\* record is removed when the removal succeeds and stays as it was when the
\* removal throws.
C9_LogoutClearsMemory ==
    [][lastOp'.op = "logout"
       => /\ auth' = [user |-> Null, isLoading |-> FALSE, error |-> Null]
          /\ lastOp'.tag = "removed" => lsUser' = AbsentUser
          /\ lastOp'.tag # "removed" => lsUser' = lsUser
      ]_vars

\* C9 witness: the removal threw during the logout of a signed-in user, whose
\* record is still in storage
C9_Witness ==
    /\ lastOp.op = "logout"
    /\ lastOp.tag = "removeFailed"
    /\ IsNull(auth.user)
    /\ ~IsNull(parseUserData(lsUser))

Authenticated == ~IsNull(auth.user)

\* C10: between two page loads, the store goes from authenticated to anonymous
\* only in a logout step, and from anonymous to authenticated only in the step
\* that completes a successful login or register or in the initial load of a
\* persisted session; failed logins and registrations, clearError and
\* refreshUser never change whether a user is signed in.
C10_AuthTransitions ==
    [][lastOp'.op # "reload"
       => /\ (Authenticated /\ ~Authenticated') => lastOp'.op = "logout"
          /\ (~Authenticated /\ Authenticated')
                => \/ /\ lastOp'.op \in {"loginComplete", "registerComplete"}
                      /\ lastOp'.tag = "completed"
                   \/ /\ lastOp'.op = "initializeAuth"
                      /\ auth.isLoading
          /\ (\/ lastOp'.op \in {"clearError", "refreshUser"}
              \/ lastOp'.op \in {"login", "register"}
              \/ lastOp'.tag = "STORAGE_ERROR")
                => Authenticated' = Authenticated
      ]_vars

\* C10 witness: a login whose record could not be stored failed while another
\* user was signed in, who still is
C10_Witness ==
    /\ lastOp.op = "loginComplete"
    /\ lastOp.tag = "STORAGE_ERROR"
    /\ Authenticated
    /\ auth.error = Some("STORAGE_ERROR")

\* ================================================================ STORAGE CLAIMS
\* the persisted user record is there and is malformed: not JSON, or without
\* an id, email, name or role
MalformedUserRecord == lsUser.kind # "absent" /\ IsNull(parseUserData(lsUser))

\* C11: when the persisted user record is malformed and the store reads it
\* during initialization, initialization ends in the anonymous state (no user,
\* not loading) and the record has been removed from storage.
C11_MalformedRecordRemoved ==
    [][(/\ lastOp'.op = "initializeAuth"
        /\ lastOp'.tag \notin {"readFailed", "removeFailed"}
        /\ MalformedUserRecord)
       => /\ IsNull(auth'.user)
          /\ ~auth'.isLoading
          /\ lsUser' = AbsentUser
      ]_vars

\* C12: when the persisted cart entry is corrupted (not JSON, or JSON that is
\* no array) and the store reads it during initialization, initialization
\* completes without throwing and leaves an empty item list with isLoading
\* false.
C12_CorruptCartGivesEmptyCart ==
    [][(/\ lastOp'.op = "initializeCart"
        /\ lastOp'.tag \notin {"readFailed", "removeFailed"}
        /\ lsCart.kind \in {"garbage", "nonarray"})
       => /\ cart'.items = <<>>
          /\ ~cart'.isLoading
          /\ cart'.error = Null
          /\ ~crashed'
      ]_vars

\* C12 witness: a cart entry that is JSON but no array has been read
C12_Witness ==
    /\ lastOp.op = "initializeCart"
    /\ lastOp.tag = "nonarray"
    /\ cart.items = <<>>
    /\ ~cart.isLoading

\* ================================================================ ORDER CLAIMS
\* the orders a storage entry holds
OrdersIn(entry) == IF entry.kind = "array" THEN entry.items ELSE <<>>

\* C13: recording an order is a pure prepend: whenever a step changes the
\* persisted orders, the new list is one new order, with status completed
\* whatever the orderData carried, followed by the previous list unchanged;
\* no step removes or modifies an order that was there.
C13_RecordIsPrepend ==
    [][lsOrders' # lsOrders
       => /\ lsOrders.kind \in {"absent", "array"}
          /\ lsOrders'.kind = "array"
          /\ Len(lsOrders'.items) = Len(OrdersIn(lsOrders)) + 1
          /\ Head(lsOrders'.items).status = "completed"
          /\ Tail(lsOrders'.items) = OrdersIn(lsOrders)
      ]_vars

\* C13 witness: an order whose orderData carried the status failed was
\* recorded in front of two different earlier orders
C13_Witness ==
    /\ lastOp.op = "recordOrder"
    /\ lastOp.tag = "recorded"
    /\ lastOp.arg = <<"failed">>
    /\ lsOrders.kind = "array"
    /\ Len(lsOrders.items) = 3
    /\ lsOrders.items[1].items # lsOrders.items[2].items
    /\ lsOrders.items[2].items # lsOrders.items[3].items

\* ================================================================ PAYMENT CLAIMS
\* C14: the validation that runs before a request is submitted checks that
\* amount equals the sum over the line items of price times quantity plus
\* the 10% tax on it: a request whose amount differs is rejected.
C14_AmountEqualityValidated ==
    lastOp.op = "validatePaymentRequest" =>
        LET request == lastOp.arg[1] IN
        request.amount # orderTotal(PriceTotal(request.items))
            => lastOp.tag = "rejected"

\* ================================================================ CART PERSISTENCE CLAIMS
\* a step of one of the four operations that change the cart
CartChangeStep ==
    lastOp'.op \in {"addItem", "removeItem", "updateItemQuantity", "clearCart"}

\* C15: after every cart change (add, remove, update of a quantity, clear)
\* made once initialization has finished, if the storage write succeeds, the
\* persisted cart entry is the full in-memory item list that results from
\* the change.
C15_ChangePersisted ==
    [][(CartChangeStep /\ faults' = faults)
       => /\ lsCart'.kind = "array"
          /\ lsCart'.items = cart'.items
      ]_vars

\* C15 witness: after a write that failed, a later removal was written: the
\* entry holds the one line that is left
C15_Witness ==
    /\ lastOp.op = "removeItem"
    /\ lastOp.tag = "existing"
    /\ faults > 0
    /\ Len(cart.items) = 1
    /\ lsCart = [kind |-> "array", items |-> cart.items]

\* the action a cart operation dispatches, read from the record of the step
DispatchedBy(op) ==
    CASE op.op = "addItem" ->
            [type |-> "ADD_ITEM",
             payload |-> [id |-> op.id, price |-> PriceOf[op.id], quantity |-> 1]]
      [] op.op = "removeItem" -> [type |-> "REMOVE_ITEM", payload |-> op.id]
      [] op.op = "updateItemQuantity" /\ op.qty <= 0 ->
            [type |-> "REMOVE_ITEM", payload |-> op.id]
      [] op.op = "updateItemQuantity" /\ op.qty > 0 ->
            [type |-> "UPDATE_QUANTITY", payload |-> [id |-> op.id, quantity |-> op.qty]]
      [] OTHER -> [type |-> "CLEAR_CART"]

\* C16: a failing write of the cart is swallowed: after a cart change whose
\* write throws, the in-memory state is the one the reducer gives for the
\* change, with no error set, the totals are those of the new items, nothing
\* is thrown, and the entry in storage is the old one.
C16_FailedWriteSwallowed ==
    [][(CartChangeStep /\ faults' # faults)
       => /\ cart' = cartReducer(cart, DispatchedBy(lastOp'))
          /\ cart'.error = Null
          /\ cartStats'.totalItems = QuantityTotal(cart'.items)
          /\ cartStats'.totalPrice = PriceTotal(cart'.items)
          /\ ~crashed'
          /\ lsCart' = lsCart
      ]_vars

\* C16 witness: the write of an added line failed, the line is in the cart
\* and not in storage
C16_Witness ==
    /\ lastOp.op = "addItem"
    /\ lastOp.tag = "new"
    /\ faults > 0
    /\ cart.error = Null
    /\ Len(cart.items) = 2
    /\ lsCart.kind = "array"
    /\ Len(lsCart.items) = 1

\* ================================================================ QUANTITY CLAIMS
\* the lines of `items` whose identifier is not `id`, in order
WithoutId(items, id) ==
    LET keep(line) == line.id # id IN SelectSeq(items, keep)

\* C17: updateItemQuantity(id, qty) with qty <= 0 leaves the cart as
\* removeItem(id) does (the lines of id gone, the others in order, no error);
\* with qty >= 1 it sets the quantity of the line of id to qty and changes no
\* other line; for an id that is not in the cart the item list is unchanged.
C17_UpdateQuantityStep ==
    [][lastOp'.op = "updateItemQuantity" =>
         LET id == lastOp'.id
             qty == lastOp'.qty
         IN
         /\ cart'.error = Null
         /\ cart'.isLoading = cart.isLoading
         /\ IF qty <= 0
            THEN cart'.items = WithoutId(cart.items, id)
            ELSE /\ Len(cart'.items) = Len(cart.items)
                 /\ \A i \in 1..Len(cart.items) :
                       IF cart.items[i].id = id
                       THEN cart'.items[i] = [cart.items[i] EXCEPT !.quantity = qty]
                       ELSE cart'.items[i] = cart.items[i]
         /\ LinesOf(cart.items, id) = {} => cart'.items = cart.items
      ]_vars

\* C17 witness: the quantity of one line of a two-line cart was set to
\* MaxQty, the other line standing at 1
C17_Witness ==
    /\ lastOp.op = "updateItemQuantity"
    /\ lastOp.tag = "existing"
    /\ lastOp.qty = MaxQty
    /\ Len(cart.items) = 2
    /\ \E i, j \in 1..2 :
          /\ cart.items[i].id = lastOp.id
          /\ cart.items[i].quantity = MaxQty
          /\ cart.items[j].id # lastOp.id
          /\ cart.items[j].quantity = 1

\* C18: in every reachable state of the cart store, also one reached by
\* loading a persisted cart, every line has a quantity of at least 1.
C18_QuantityPositive ==
    \A i \in 1..Len(cart.items) :
        cart.items[i].quantity \in Nat /\ cart.items[i].quantity >= 1

\* C18 witness: a persisted cart with a line that carries no quantity has
\* been loaded
C18_Witness ==
    /\ lastOp.op = "initializeCart"
    /\ lastOp.tag = "array"
    /\ lsCart.kind = "array"
    /\ \E i \in 1..Len(cart.items) : cart.items[i].quantity = 1
    /\ faults > 0
    /\ \E i \in 1..Len(lsCart.items) : lsCart.items[i].quantity = 0

\* ================================================================ SESSION CLAIMS
\* the step in which a login or register call stores its user and completes
CompletedAuthStep ==
    /\ lastOp'.op \in {"loginComplete", "registerComplete"}
    /\ lastOp'.tag = "completed"

\* the record in storage was written by a login or register call: its id is
\* one that generateId has handed out
WrittenBySession ==
    /\ lsUser.kind = "object"
    /\ Val(lsUser.user).id \in 1..idSeq

\* C19: session round trip: a successful login or register stores the user
\* it makes current, and initializing the auth store again from a record so
\* stored restores an authenticated session with the same id, email, name
\* and role.
C19_SessionRoundTrip ==
    [][/\ CompletedAuthStep
          => /\ ~IsNull(auth'.user)
             /\ Val(auth'.user).id = idSeq'
             /\ lsUser'.kind = "object"
             /\ lsUser'.user = auth'.user
       /\ (/\ lastOp'.op = "initializeAuth"
           /\ lastOp'.tag \notin {"readFailed", "removeFailed"}
           /\ WrittenBySession)
          => /\ ~IsNull(auth'.user)
             /\ ~auth'.isLoading
             /\ Val(auth'.user).id = Val(lsUser.user).id
             /\ Val(auth'.user).email = Val(lsUser.user).email
             /\ Val(auth'.user).name = Val(lsUser.user).name
             /\ Val(auth'.user).role = Val(lsUser.user).role
      ]_vars

\* C19 witness: the session of a login with ADMIN@x.com was restored after a
\* page load
C19_Witness ==
    /\ lastOp.op = "initializeAuth"
    /\ lastOp.tag = "restored"
    /\ ~IsNull(auth.user)
    /\ Val(auth.user).id \in 1..idSeq
    /\ Val(auth.user).email = <<"admin", "@", "x", ".", "com">>
    /\ Val(auth.user).name = <<"ADMIN">>

\* the role the claim gives for an email
RoleByEmail(email) ==
    IF \E i \in 1..Len(email) : email[i] = "admin" THEN "admin"
    ELSE IF \E i \in 1..Len(email) : email[i] = "seller" THEN "seller"
    ELSE "buyer"

\* C20: a login with a valid email and a password of at least 6 characters,
\* whatever the password, goes on to its delay, and when it completes it
\* makes current and stores a user whose role is admin if the email contains
\* "admin", else seller if it contains "seller", else buyer.
C20_LoginRole ==
    [][/\ (/\ lastOp'.op = "login"
           /\ lastOp'.arg \in {SellerEmail, UpperAdminEmail, AdminSellerEmail}
           /\ lastOp'.tag # "WEAK_PASSWORD")
          => /\ lastOp'.tag = "ok"
             /\ authQueue' = Append(authQueue,
                   [op |-> "login", email |-> lastOp'.arg, name |-> <<>>, role |-> Null])
       /\ (/\ lastOp'.op = "loginComplete"
           /\ lastOp'.tag = "completed")
          => /\ ~IsNull(auth'.user)
             /\ Val(auth'.user).role = RoleByEmail(Head(authQueue).email)
             /\ lsUser' = ObjectUser(Val(auth'.user))
      ]_vars

\* C20 witness: the login of admin-seller@x.com has completed as an admin
C20_Witness ==
    /\ lastOp.op = "loginComplete"
    /\ lastOp.tag = "completed"
    /\ lastOp.arg = AdminSellerEmail
    /\ ~IsNull(auth.user)
    /\ Val(auth.user).role = "admin"
    /\ lsUser = ObjectUser(Val(auth.user))

\* ================================================================ ROLE CLAIMS
\* C21: a user's role never changes after creation: whenever the current
\* user before and after a step is the same user, by id or by email, the
\* role is the same.
C21_RoleImmutable ==
    [][(/\ ~IsNull(auth.user)
        /\ ~IsNull(auth'.user)
        /\ \/ Val(auth.user).id = Val(auth'.user).id
           \/ Val(auth.user).email = Val(auth'.user).email)
       => Val(auth'.user).role = Val(auth.user).role
      ]_vars

\* ================================================================ PAYMENT RESULT CLAIMS
\* the PaymentResponse a call of processPayment has just returned
Returned(op) == op.arg[1]

CannedReasons == {"Insufficient funds", "Payment method declined",
                  "Network timeout", "Invalid payment details"}

\* C22: every result of processPayment is either a success carrying a
\* transaction identifier and the status completed, or a failure with the
\* status failed, no transaction identifier and one of the four canned
\* reasons as its error; success is true exactly when the status is completed
\* and a transaction identifier is present.
C22_PaymentResultShape ==
    [][lastOp'.op = "processPaymentReturn" =>
         LET r == Returned(lastOp') IN
         /\ \/ /\ r.success
               /\ ~IsNull(r.transactionId)
               /\ r.status = "completed"
            \/ /\ ~r.success
               /\ r.status = "failed"
               /\ IsNull(r.transactionId)
               /\ ~IsNull(r.error)
               /\ Val(r.error) \in CannedReasons
         /\ r.success <=> (r.status = "completed" /\ ~IsNull(r.transactionId))
      ]_vars

\* C22 witness: a call of processPayment has returned a failure
C22_Witness ==
    /\ lastOp.op = "processPaymentReturn"
    /\ ~Returned(lastOp).success
    /\ Returned(lastOp).error = Some("Network timeout")

\* ================================================================ CLEAR CLAIMS
\* C23: clearCart called in any cart state leaves an empty item list, and the
\* totals read afterwards are zero items and a zero price.
C23_ClearEmptiesCart ==
    [][lastOp'.op = "clearCart" =>
         /\ cart'.items = <<>>
         /\ cartStats'.totalItems = 0
         /\ cartStats'.totalPrice = 0
         /\ cartStats'.uniqueItems = 0
      ]_vars

\* C23 witness: a cart that held lines has been cleared
C23_Witness ==
    /\ lastOp.op = "clearCart"
    /\ lastOp.tag = "nonEmpty"
    /\ cart.items = <<>>
    /\ cartStats.totalItems = 0

\* ================================================================ START-UP CLAIMS
\* The auth store with its scheduling: React runs each provider's mount
\* effect once the provider has mounted, and the timer of a started login or
\* register fires. What the user does is never forced.
SpecAuthLive ==
    /\ SpecAuth
    /\ WF_vars(InitializeAuth)
    /\ WF_vars(InitializeCart)
    /\ WF_vars(AuthComplete)

\* C24: auth initialization always leaves the loading state: a store that is
\* loading with its initialization still to run eventually has isLoading
\* false, whatever the persisted record holds and whether or not a storage
\* call throws (unless the page itself has gone down in the meantime).
C24_InitLeavesLoading ==
    (auth.isLoading /\ "auth" \in initPending) ~> (~auth.isLoading \/ crashed)

\* ================================================================ PENDING PAYMENT CLAIMS
\* a payment resolves whose checkout page has been unmounted since it was
\* submitted
ResolvedAfterUnmount ==
    /\ lastOp'.op = "paymentResolved"
    /\ payments # <<>>
    /\ \A i \in 1..Len(payments) : ~payments[i].mounted

\* C25: when the checkout page is unmounted while processPayment is pending,
\* the result is discarded: the cart is not cleared and no order is recorded
\* (the orders page is not navigated to).
C25_UnmountDiscardsResult ==
    [][ResolvedAfterUnmount =>
          /\ cart'.items = cart.items
          /\ lsCart' = lsCart
          /\ lsOrders' = lsOrders
          /\ crashed' = crashed
      ]_vars

\* ================================================================ ORDER STORAGE CLAIMS
\* C26: corrupted persisted order data (unparseable, or not an array) never
\* takes the order history down: loading or recording with such data, with
\* no storage call failing, leaves a usable page, and after recording the
\* stored history holds only the new order.
C26_CorruptOrdersSurvived ==
    [][(/\ lastOp'.op \in {"openOrders", "recordOrder"}
        /\ lsOrders.kind \in {"garbage", "nonarray"}
        /\ faults' = faults)
       => /\ ~crashed'
          /\ lastOp'.op = "recordOrder" =>
                (lsOrders'.kind = "array" /\ Len(lsOrders'.items) = 1)
      ]_vars

\* ================================================================ STORAGE KEY CLAIMS
\* The three stores side by side, over a storage that already holds a cart,
\* a user and an order history, or none of them.
StoredOrder == newOrder([transactionId |-> "txn", items |-> <<NewItem("n2")>>,
                         total |-> orderTotal(PriceOf["n2"])])

InitStores ==
    /\ InitCommon
    /\ \/ /\ lsCart = AbsentEntry
          /\ lsUser = AbsentUser
          /\ lsOrders = AbsentEntry
       \/ /\ lsCart = ArrayEntry(<<NewItem("n2")>>)
          /\ lsUser = ObjectUser(StoredUser)
          /\ lsOrders = ArrayEntry(<<StoredOrder>>)

NextStores ==
    \/ InitializeCart
    \/ InitializeAuth
    \/ AddItem("n1")
    \/ RemoveItem("n1")
    \/ UpdateItemQuantity("n1", MaxQty)
    \/ ClearCart
    \/ Login(SellerEmail, LongPassword)
    \/ Register(UpperAdminEmail, LongPassword, <<"Jo">>, Null)
    \/ AuthComplete
    \/ Logout
    \/ RefreshUser
    \/ RecordOrder([transactionId |-> "txn", items |-> <<NewItem("n1")>>,
                    total |-> orderTotal(PriceOf["n1"]), status |-> ""])

SpecStores == InitStores /\ [][NextStores]_vars

CartOps == {"initializeCart", "addItem", "removeItem", "updateItemQuantity", "clearCart"}
AuthOps == {"initializeAuth", "login", "register", "loginComplete",
            "registerComplete", "logout", "refreshUser"}

\* C27: each store reads and writes only its own storage key: a cart
\* operation leaves the persisted user and orders entries unchanged, an auth
\* operation (login, register, logout, refreshUser, and the start-up of the
\* store) leaves the persisted cart and orders entries and the in-memory
\* cart unchanged, and recording an order leaves the persisted user entry
\* unchanged.
C27_OwnKeyOnly ==
    [][/\ lastOp'.op \in CartOps =>
            (lsUser' = lsUser /\ lsOrders' = lsOrders)
       /\ lastOp'.op \in AuthOps =>
            (lsCart' = lsCart /\ lsOrders' = lsOrders /\ cart' = cart)
       /\ lastOp'.op = "recordOrder" => lsUser' = lsUser
      ]_vars

\* C27 witness: a logout has removed the user record while the storage holds
\* a cart with a line in it and an order history
C27_Witness ==
    /\ lastOp.op = "logout"
    /\ lastOp.tag = "removed"
    /\ lsUser = AbsentUser
    /\ lsCart.kind = "array"
    /\ Len(lsCart.items) > 0
    /\ Len(cart.items) > 0
    /\ lsOrders.kind = "array"
    /\ Len(lsOrders.items) > 1

\* ================================================================ LOGOUT CLAIMS
\* a login or register that was started before the last operation, a logout
\* that removed the user record, completes
CompletesAfterLogout ==
    /\ lastOp.op = "logout"
    /\ lastOp.tag = "removed"
    /\ authQueue # <<>>
    /\ lastOp'.op \in {"loginComplete", "registerComplete"}

\* C28: a logout is not undone by an earlier request: when a login or
\* register that was waiting on its delay at the time of a logout completes,
\* the session is still anonymous and no user record is persisted.
C28_LogoutNotUndone ==
    [][CompletesAfterLogout =>
          /\ IsNull(auth'.user)
          /\ lsUser' = AbsentUser
      ]_vars

\* ================================================================ PAID SNAPSHOT CLAIMS
\* the identifiers and quantities of a list of cart lines or order lines
LineSet(items) == {<<items[i].id, OrOne(items[i].quantity)>> : i \in 1..Len(items)}

\* C29: on a successful checkout the cart lines that are cleared are exactly
\* the lines of the snapshot that was paid for and recorded in the order: a
\* line of the cart that is not in the recorded order, by identifier and
\* quantity, is still in the cart afterwards.
C29_ClearedLinesArePaidLines ==
    [][(lastOp'.op = "paymentResolved" /\ lastOp'.tag = "successRecorded") =>
          \A line \in LineSet(cart.items) \ LineSet(cart'.items) :
              line \in LineSet(Head(lsOrders'.items).items)
      ]_vars

\* ================================================================ CART START-UP CLAIMS
\* a step in which the cart store initializes from a valid persisted cart
LoadsValidCart ==
    /\ lastOp'.op = "initializeCart"
    /\ lsCart.kind = "array"

====
